---- MODULE Spec2Model ----
(***************************************************************************)
(* Registration lifecycle and slot reservation engine of src/bot.py.       *)
(*                                                                         *)
(* The bot runs on one cooperative event loop: a handler runs without      *)
(* interruption from one await to the next.  Every action below is one     *)
(* such synchronous section; a handler that mutates the store on both      *)
(* sides of an await is an entry in `handlers` with a pc.                  *)
(*                                                                         *)
(* Time is in seconds and relative to the present: a timestamp is kept as  *)
(* its offset from now (created_at <= 0), a timer as the time left until   *)
(* it is due.  Both saturate where the code no longer tells values apart.  *)
(* Strings that the code lower-cases (team names) are sequences of         *)
(* character codes, so that str.lower() is computed.                       *)
(***************************************************************************)
EXTENDS Integers, Sequences, FiniteSets, TLC

(***************************************************************************)
(* Bounds of the model.                                                    *)
(***************************************************************************)
MaxMsgs == 1
    \* squad messages handled in one run of Spec
MaxSubmissions == 2
    \* squad messages handled in one run of SpecSubmit
MaxFullMsgs == 2
    \* squad messages handled in one run of SpecFull
MaxFaultyMsgs == 2
    \* squad messages handled in one run of SpecFaulty
TickStep == 300
    \* granularity of the clock
MaxInFlight == 2
    \* handlers suspended at an await at the same time
MaxProofs == 1
    \* payment proofs forwarded to the staff channel in one run
MaxVerified == 2
    \* cap on the per-registration count of confirmation sequences
MaxEntryMsgs == 2
    \* squad messages handled in one run of SpecEntry
MaxConfirmMsgs == 1
    \* squad messages handled in one run of SpecConfirm
MaxSaveMsgs == 2
    \* squad messages handled in one run of SpecSave
MaxLiveMsgs == 1
    \* squad messages handled in one run of SpecLive

(***************************************************************************)
(* Program constants.                                                      *)
(***************************************************************************)
C_LOBBY == 36
EXPIRE_SECONDS == 300
PAYMENT_TIMEOUT_MINUTES == 10
GRACE_MINUTES == 10
MENTIONS_REQUIRED == 4
NoFee == 0
    \* entry_fee = None
NoMatchType == "none"
    \* match_type = None

\* a table in which every match type has one fee
MATCH_TYPES_SINGLE == [special |-> <<55>>, mini |-> <<25>>, mega |-> <<35>>]

MATCH_TYPES ==
    [special |-> <<55>>, mini |-> <<25, 30>>, mega |-> <<35, 45>>]

MatchTypeKeys == {"special", "mini", "mega"}

\* only the registrations still waiting for payment
ReservedUnpaid == {"payment_pending"}

\* the statuses that hold a slot and collide with a new squad
Reserved == {"payment_pending", "confirmed"}

(***************************************************************************)
(* Strings as character codes; str.lower() on ASCII.                       *)
(***************************************************************************)
\* a comparison that keeps the case
Verbatim(s) == s

Lower(s) == [i \in DOMAIN s |-> IF s[i] \in 65..90 THEN s[i] + 32 ELSE s[i]]

TeamPrefix == <<84, 101, 97, 109, 45>>
    \* "Team-"

\* display names of the senders: 1 "Ron", 2 "RON", 3 "Ana"
DisplayName ==
    [l \in {1, 2, 3} |->
        CASE l = 1 -> <<82, 111, 110>>
          [] l = 2 -> <<82, 79, 78>>
          [] l = 3 -> <<65, 110, 97>>]

\* display name of the leader of the i-th registration of a full lobby: "F07"
FillerName(i) == <<70, 48 + (i \div 10), 48 + (i % 10)>>

AutoTeamName(display) == TeamPrefix \o display

(***************************************************************************)
(* Squad messages the environment can send to a lobby channel.             *)
(***************************************************************************)
Squads ==
    << [leader |-> 1, display |-> DisplayName[1], lobby |-> "12pm",
        mentions |-> <<11, 12, 13, 14>>],
       [leader |-> 2, display |-> DisplayName[2], lobby |-> "12pm",
        mentions |-> <<21, 22, 23, 24>>],
       [leader |-> 3, display |-> DisplayName[3], lobby |-> "12pm",
        mentions |-> <<14, 31, 32, 33>>],
       [leader |-> 1, display |-> DisplayName[1], lobby |-> "03pm",
        mentions |-> <<11, 12, 13, 14>>],
       [leader |-> 3, display |-> DisplayName[3], lobby |-> "12pm",
        mentions |-> <<31, 32, 33>>] >>

VARIABLES
    REG_COUNTER,
    regs,                   \* the Registration objects, keyed by message id
    REG_BY_ID,              \* dict reg_id -> object, in insertion order
    REG_BY_MESSAGE,         \* dict message_id -> object (the keys)
    PENDING_EXPIRE_TASKS,   \* dict reg_id -> expiry task
    PENDING_PAYMENT_TASKS,  \* dict reg_id -> payment task
    expireTasks,            \* expiry tasks still sleeping
    paymentTasks,           \* payment tasks still sleeping
    BLACKLIST,              \* dict leader id -> entry
    PAYMENT_VERIFICATION_REQUESTS, \* dict staff message id -> reg_id
    disk,                   \* content of STATE_PATH
    diskFaulty,             \* whether writes to STATE_PATH can fail
    views,                  \* the button views that still dispatch clicks
    handlers,               \* handlers suspended at an await
    messages,               \* squad messages received, with the bot's answer
    proofs,                 \* number of proofs forwarded to the staff channel
    created,                \* reg ids in the order they were assigned
    verified,               \* per message id: confirmation sequences run
                            \* to their 'Payment Verified' audit record
    removed                 \* per message id: how the registration left
                            \* the store

vars ==
    <<REG_COUNTER, regs, REG_BY_ID, REG_BY_MESSAGE, PENDING_EXPIRE_TASKS,
      PENDING_PAYMENT_TASKS, expireTasks, paymentTasks, BLACKLIST,
      PAYMENT_VERIFICATION_REQUESTS, disk, diskFaulty, views, handlers,
      messages, proofs, created, verified, removed>>

(***************************************************************************)
(* Python dicts.  REG_BY_ID keeps insertion order because the staff        *)
(* commands take the first match of an iteration over its values.          *)
(***************************************************************************)
DictHas(d, k) == \E i \in DOMAIN d : d[i].key = k

DictGet(d, k) ==
    IF DictHas(d, k)
    THEN (CHOOSE i \in DOMAIN d : d[i].key = k) \* keys are unique
    ELSE 0

DictVal(d, k) == d[DictGet(d, k)].val

\* a pop that leaves the entry in the dict
DictKept(d, k) == d

DictPop(d, k) == SelectSeq(d, LAMBDA e : e.key # k)

DictSet(d, k, v) ==
    IF DictHas(d, k)
    THEN [i \in DOMAIN d |-> IF d[i].key = k THEN [key |-> k, val |-> v]
                                             ELSE d[i]]
    ELSE Append(d, [key |-> k, val |-> v])

DictKeys(d) == {d[i].key : i \in DOMAIN d}

\* REG_BY_ID.get(reg_id): the object, or 0 for None
RegById(reg_id) ==
    IF DictHas(REG_BY_ID, reg_id) THEN DictVal(REG_BY_ID, reg_id) ELSE 0

\* REG_BY_ID.values(), in iteration order
RegValues == [i \in DOMAIN REG_BY_ID |-> regs[REG_BY_ID[i].val]]

\* objects that a dict still references
Live(byId, byMsg) == {byId[i].val : i \in DOMAIN byId} \cup byMsg

Collect(rs, byId, byMsg) == [o \in Live(byId, byMsg) |-> rs[o]]

\* the ghost `removed` after the dicts became byId and byMsg for `cause`
Removed(byId, byMsg, cause) ==
    [o \in Live(REG_BY_ID, REG_BY_MESSAGE) \ Live(byId, byMsg) |-> cause]
        @@ removed

(***************************************************************************)
(* Queries over the store.                                                 *)
(***************************************************************************)
registrations_for(lobby_key, match_type, statuses) ==
    SelectSeq(RegValues,
        LAMBDA reg :
            /\ reg.lobby_key = lobby_key
            /\ (match_type # NoMatchType => reg.match_type = match_type)
            /\ reg.status \in statuses)

reserved_slots_count(lobby_key) ==
    Len(registrations_for(lobby_key, NoMatchType, Reserved))

total_confirmed_slots(lobby_key) ==
    Len(registrations_for(lobby_key, NoMatchType, {"confirmed"}))

(***************************************************************************)
(* Duplicate detector.  The loop of the code over REG_BY_ID.values().      *)
(***************************************************************************)
\* now - ts, for a timestamp kept relative to now
Elapsed(ts) == -ts

Contains(seq, x) == \E i \in DOMAIN seq : seq[i] = x

RECURSIVE DuplicateScan(_, _, _, _)
DuplicateScan(i, lobby_key, team_name, player_ids) ==
    IF i > Len(REG_BY_ID)
    THEN FALSE
    ELSE LET reg == RegValues[i]
         IN  IF reg.lobby_key # lobby_key
             THEN DuplicateScan(i + 1, lobby_key, team_name, player_ids)
             ELSE IF /\ reg.status = "pending"
                     /\ Elapsed(reg.created_at) > GRACE_MINUTES * 60
             THEN DuplicateScan(i + 1, lobby_key, team_name, player_ids)
             ELSE IF /\ Lower(reg.team_name) = Lower(team_name)
                     /\ reg.status \in Reserved
             THEN TRUE
             ELSE IF \E j \in DOMAIN player_ids :
                        /\ Contains(reg.player_ids, player_ids[j])
                        /\ reg.status \in Reserved
             THEN TRUE
             ELSE DuplicateScan(i + 1, lobby_key, team_name, player_ids)

\* a detector that finds nothing
never_duplicate(lobby_key, team_name, player_ids) == FALSE

is_duplicate_registration(lobby_key, team_name, player_ids) ==
    DuplicateScan(1, lobby_key, team_name, player_ids)

(***************************************************************************)
(* Persistence.  A write that fails leaves the file as it was or leaves it *)
(* truncated; load_state reads an unreadable or absent file as empty.      *)
(***************************************************************************)
NoFile == [readable |-> FALSE, reg_counter |-> 0, blacklist |-> << >>]

SaveOutcomes == IF diskFaulty THEN {"ok", "unchanged", "truncated"} ELSE {"ok"}

\* a save issued before the assignment: it writes the values of the state
\* the caller started from
save_before(outcome, counter, blacklist) ==
    [readable |-> TRUE, reg_counter |-> REG_COUNTER, blacklist |-> BLACKLIST]

save_state(outcome, counter, blacklist) ==
    CASE outcome = "ok" ->
            [readable |-> TRUE, reg_counter |-> counter, blacklist |-> blacklist]
      [] outcome = "unchanged" -> disk
      [] outcome = "truncated" -> NoFile

\* a save whose failure undoes the assignment made before it
AbortedOnFailure(outcome, after, before) ==
    IF outcome = "ok" THEN after ELSE before

\* `except Exception: pass` of save_state: whatever the write did, the
\* caller goes on with the value it assigned before the call
KeptAfterSave(outcome, after, before) == after

(***************************************************************************)
(* Handlers suspended at an await.                                         *)
(***************************************************************************)
View(kind, reg_id, lobby_key, mt_key) ==
    [kind |-> kind, reg_id |-> reg_id, lobby_key |-> lobby_key,
     mt_key |-> mt_key]

NoView == View("none", 0, "none", NoMatchType)

\* msg: the squad message (or staff message) the handler is about;
\* reg_id, view, arg: the locals it carries across the await
Handler(kind, pc, msg, reg_id, view, arg) ==
    [kind |-> kind, pc |-> pc, msg |-> msg, reg_id |-> reg_id,
     view |-> view, arg |-> arg]

CanSuspend == Cardinality(handlers) < MaxInFlight

(***************************************************************************)
(* on_message, guild branch: a squad message arrives in a lobby channel.   *)
(* Runs up to the await of the tick reaction.                              *)
(***************************************************************************)
\* a handler that turns submissions away when the lobby is full
VerdictCapped(s) ==
    IF s.leader \in DOMAIN BLACKLIST THEN "blacklisted"
    ELSE IF Len(s.mentions) # MENTIONS_REQUIRED THEN "invalid"
    ELSE IF is_duplicate_registration(s.lobby, AutoTeamName(s.display),
                                      s.mentions)
    THEN "duplicate"
    ELSE IF reserved_slots_count(s.lobby) >= C_LOBBY THEN "full"
    ELSE "accepted"

\* a handler that does not consult the blacklist
VerdictUnlisted(s) ==
    IF Len(s.mentions) # MENTIONS_REQUIRED THEN "invalid"
    ELSE IF is_duplicate_registration(s.lobby, AutoTeamName(s.display),
                                      s.mentions)
    THEN "duplicate"
    ELSE "accepted"

\* a handler that does not count the mentions
VerdictUncounted(s) ==
    IF s.leader \in DOMAIN BLACKLIST THEN "blacklisted"
    ELSE IF is_duplicate_registration(s.lobby, AutoTeamName(s.display),
                                      s.mentions)
    THEN "duplicate"
    ELSE "accepted"

SubmissionVerdict(s) ==
    IF s.leader \in DOMAIN BLACKLIST THEN "blacklisted"
    ELSE IF Len(s.mentions) # MENTIONS_REQUIRED THEN "invalid"
    ELSE IF is_duplicate_registration(s.lobby, AutoTeamName(s.display),
                                      s.mentions)
    THEN "duplicate"
    ELSE "accepted"

OnMessage(s, limit) ==
    /\ Len(messages) < limit
    /\ CanSuspend
    /\ LET m == Len(messages) + 1
           verdict == SubmissionVerdict(s)
       IN  /\ messages' = Append(messages, [squad |-> s, verdict |-> verdict])
           /\ handlers' =
                IF verdict = "accepted"
                THEN handlers \cup {Handler("on_message", "create", m, 0, NoView, "")}
                ELSE handlers
    /\ UNCHANGED <<REG_COUNTER, regs, REG_BY_ID, REG_BY_MESSAGE,
                   PENDING_EXPIRE_TASKS, PENDING_PAYMENT_TASKS, expireTasks,
                   paymentTasks, BLACKLIST, PAYMENT_VERIFICATION_REQUESTS,
                   disk, diskFaulty, views, proofs, created, verified, removed>>

\* next_reg_id(): the new counter value; the save is issued by the caller's
\* action through save_state
\* an id taken from the size of the store instead of the counter
store_size_reg_id == Len(REG_BY_ID) + 1

next_reg_id == REG_COUNTER + 1

\* on_message after the tick reaction: create the registration, arm expiry
OnMessageCreate(h, saved) ==
    /\ h \in handlers
    /\ h.kind = "on_message" /\ h.pc = "create"
    /\ saved \in SaveOutcomes
    /\ LET s == messages[h.msg].squad
           id == next_reg_id
           reg == [reg_id |-> id,
                   lobby_key |-> s.lobby,
                   message_id |-> h.msg,
                   team_name |-> AutoTeamName(s.display),
                   leader_id |-> s.leader,
                   player_ids |-> s.mentions,
                   match_type |-> NoMatchType,
                   entry_fee |-> NoFee,
                   status |-> "pending",
                   created_at |-> 0]
           byId == DictSet(REG_BY_ID, id, h.msg)
           byMsg == REG_BY_MESSAGE \cup {h.msg}
       IN  /\ REG_COUNTER' = KeptAfterSave(saved, id, REG_COUNTER)
           /\ disk' = save_state(saved, id, BLACKLIST)
           /\ REG_BY_ID' = byId
           /\ REG_BY_MESSAGE' = byMsg
           /\ regs' = Collect((h.msg :> reg) @@ regs, byId, byMsg)
           /\ expireTasks' = expireTasks \cup
                {[task |-> h.msg, reg_id |-> id, due |-> EXPIRE_SECONDS]}
           /\ PENDING_EXPIRE_TASKS' = DictSet(PENDING_EXPIRE_TASKS, id, h.msg)
           /\ created' = Append(created, id)
           /\ handlers' = (handlers \ {h})
                \cup {Handler("on_message", "dm", h.msg, id, NoView, "")}
    /\ UNCHANGED <<PENDING_PAYMENT_TASKS, paymentTasks, BLACKLIST,
                   PAYMENT_VERIFICATION_REQUESTS, diskFaulty, views, messages,
                   proofs, verified, removed>>

\* a handler without the rollback
KeptAlways == {"reply_failed", "no_member", "dm_failed", "dm_sent"}

\* outcomes after which on_message leaves the registration in the store:
\* all but `if not leader_member:` and `if not dm_sent:`
KeptResults == {"reply_failed", "dm_sent"}

\* on_message after the 'Registration Accepted' reply: look the leader up
\* and send the private prompt (start_dm_flow).  reply_failed: the reply
\* raised and the handler ended there
OnMessageDm(h, result) ==
    /\ h \in handlers
    /\ h.kind = "on_message" /\ h.pc = "dm"
    /\ result \in {"reply_failed", "no_member", "dm_failed", "dm_sent"}
    /\ LET kept == result \in KeptResults
           byId == IF kept THEN REG_BY_ID ELSE DictPop(REG_BY_ID, h.reg_id)
           byMsg == IF kept THEN REG_BY_MESSAGE ELSE REG_BY_MESSAGE \ {h.msg}
       IN  /\ REG_BY_ID' = byId
           /\ REG_BY_MESSAGE' = byMsg
           /\ regs' = Collect(regs, byId, byMsg)
           /\ removed' = Removed(byId, byMsg, "rollback")
    /\ expireTasks' =
         IF result \in KeptResults THEN expireTasks
         ELSE {t \in expireTasks : t.task # h.msg}
    /\ PENDING_EXPIRE_TASKS' =
         IF result = "dm_failed" THEN DictPop(PENDING_EXPIRE_TASKS, h.reg_id)
         ELSE PENDING_EXPIRE_TASKS
    /\ views' =
         IF result = "dm_sent"
         THEN views \cup {View("MatchTypeView", h.reg_id,
                                messages[h.msg].squad.lobby, NoMatchType)}
         ELSE views
    /\ handlers' = handlers \ {h}
    /\ UNCHANGED <<REG_COUNTER, PENDING_PAYMENT_TASKS, paymentTasks,
                   BLACKLIST, PAYMENT_VERIFICATION_REQUESTS, disk, diskFaulty,
                   messages, proofs, created, verified>>

(***************************************************************************)
(* Clock and timers.  asyncio.sleep(d) resumes the task no earlier than d  *)
(* after it was armed; how much later is up to the event loop.             *)
(***************************************************************************)
Max(a, b) == IF a >= b THEN a ELSE b

\* the first age past the grace window of the duplicate detector
AgeCap == GRACE_MINUTES * 60 + TickStep

Tick ==
    /\ regs' = [o \in DOMAIN regs |->
                  [regs[o] EXCEPT !.created_at = Max(@ - TickStep, -AgeCap)]]
    /\ expireTasks' = {[t EXCEPT !.due = Max(@ - TickStep, 0)] : t \in expireTasks}
    /\ paymentTasks' =
         {[t EXCEPT !.due = Max(@ - TickStep, 0)] : t \in paymentTasks}
    /\ UNCHANGED <<REG_COUNTER, REG_BY_ID, REG_BY_MESSAGE,
                   PENDING_EXPIRE_TASKS, PENDING_PAYMENT_TASKS, BLACKLIST, PAYMENT_VERIFICATION_REQUESTS,
                   disk, diskFaulty, views, handlers, messages, proofs,
                   created, verified, removed>>

\* a timer that never finds anything to expire
ExpiryDueNever(reg) == FALSE

\* an expiry that does not look at the status
ExpiryDueAlways(reg) == TRUE

\* `if reg.status == "pending":` of the timer
ExpiryDue(reg) == reg.status = "pending"

\* expire_pending after its sleep
ExpirePending(t) ==
    /\ t \in expireTasks
    /\ t.due <= 0
    /\ expireTasks' = expireTasks \ {t}
    /\ LET o == RegById(t.reg_id)
           fires == o # 0 /\ ExpiryDue(regs[o])
           byId == IF fires THEN DictPop(REG_BY_ID, regs[o].reg_id)
                   ELSE REG_BY_ID
           byMsg == IF fires THEN REG_BY_MESSAGE \ {regs[o].message_id}
                    ELSE REG_BY_MESSAGE
       IN  /\ REG_BY_ID' = byId
           /\ REG_BY_MESSAGE' = byMsg
           /\ regs' = Collect(regs, byId, byMsg)
           /\ removed' = Removed(byId, byMsg, "expired")
           /\ PENDING_EXPIRE_TASKS' =
                IF fires THEN DictPop(PENDING_EXPIRE_TASKS, regs[o].reg_id)
                ELSE PENDING_EXPIRE_TASKS
    /\ UNCHANGED <<REG_COUNTER, PENDING_PAYMENT_TASKS, paymentTasks,
                   BLACKLIST, PAYMENT_VERIFICATION_REQUESTS, disk, diskFaulty,
                   views, handlers, messages, proofs, created, verified>>

(***************************************************************************)
(* Private flow: match type and fee selection.                             *)
(***************************************************************************)
Selectable == {"pending", "payment_pending"}

\* a repeated selection that withdraws the reservation
StatusToggled(status) ==
    IF status = "pending" THEN "payment_pending" ELSE "pending"

\* `reg.status = "payment_pending"` of both selection handlers, whatever the
\* status was
StatusOnSelection(status) == "payment_pending"

\* a lobby that never counts as full
LobbyNeverFull(lobby_key) == FALSE

\* `if reserved_slots_count(self.lobby_key) >= 36:`
LobbyFull(lobby_key) == reserved_slots_count(lobby_key) >= C_LOBBY

\* MatchTypeView.handle_choice up to its first await
MatchTypeChoice(v, mt_key) ==
    /\ v \in views
    /\ v.kind = "MatchTypeView"
    /\ mt_key \in MatchTypeKeys
    /\ LET o == RegById(v.reg_id)
       IN  IF o = 0 \/ regs[o].status \notin Selectable
           THEN UNCHANGED vars
           ELSE IF LobbyFull(v.lobby_key)
           THEN UNCHANGED vars
           ELSE /\ CanSuspend
                /\ IF Len(MATCH_TYPES[mt_key]) = 1
                   THEN /\ regs' = [regs EXCEPT
                                      ![o].match_type = mt_key,
                                      ![o].entry_fee = MATCH_TYPES[mt_key][1],
                                      ![o].status = StatusOnSelection(regs[o].status)]
                        /\ handlers' = handlers \cup
                             {Handler("pay", "send", regs[o].message_id,
                                      regs[o].reg_id, v, "")}
                   ELSE /\ regs' = [regs EXCEPT ![o].match_type = mt_key]
                        /\ handlers' = handlers \cup
                             {Handler("choice", "fee_view", regs[o].message_id,
                                      regs[o].reg_id, v, mt_key)}
                /\ UNCHANGED <<REG_COUNTER, REG_BY_ID, REG_BY_MESSAGE,
                               PENDING_EXPIRE_TASKS, PENDING_PAYMENT_TASKS,
                               expireTasks, paymentTasks, BLACKLIST,
                               PAYMENT_VERIFICATION_REQUESTS, disk, diskFaulty,
                               views, messages, proofs, created, verified, removed>>

\* handle_choice, several fee options: the fee view has been sent; self.stop()
FeeViewSent(h) ==
    /\ h \in handlers
    /\ h.kind = "choice" /\ h.pc = "fee_view"
    /\ views' = (views \ {h.view})
         \cup {View("FeeView", h.view.reg_id, h.view.lobby_key, h.arg)}
    /\ handlers' = handlers \ {h}
    /\ UNCHANGED <<REG_COUNTER, regs, REG_BY_ID, REG_BY_MESSAGE,
                   PENDING_EXPIRE_TASKS, PENDING_PAYMENT_TASKS, expireTasks,
                   paymentTasks, BLACKLIST, PAYMENT_VERIFICATION_REQUESTS,
                   disk, diskFaulty, messages, proofs, created, verified, removed>>

\* FeeButton.callback up to its first await
FeeButtonCallback(v, fee) ==
    /\ v \in views
    /\ v.kind = "FeeView"
    /\ Contains(MATCH_TYPES[v.mt_key], fee)
    /\ LET o == RegById(v.reg_id)
       IN  IF o = 0 \/ regs[o].status \notin Selectable
           THEN UNCHANGED vars
           ELSE /\ CanSuspend
                /\ regs' = [regs EXCEPT ![o].entry_fee = fee,
                                        ![o].status = StatusOnSelection(regs[o].status)]
                /\ handlers' = handlers \cup
                     {Handler("pay", "send", regs[o].message_id,
                              regs[o].reg_id, v, "")}
                /\ UNCHANGED <<REG_COUNTER, REG_BY_ID, REG_BY_MESSAGE,
                               PENDING_EXPIRE_TASKS, PENDING_PAYMENT_TASKS,
                               expireTasks, paymentTasks, BLACKLIST,
                               PAYMENT_VERIFICATION_REQUESTS, disk, diskFaulty,
                               views, messages, proofs, created, verified, removed>>

\* identity of a new payment task: one that no dict entry and no sleeping
\* task carries
FreshTask ==
    LET used == {t.task : t \in paymentTasks}
                \cup {PENDING_PAYMENT_TASKS[i].val :
                        i \in DOMAIN PENDING_PAYMENT_TASKS}
    IN  CHOOSE n \in 1..(Cardinality(used) + 1) : n \notin used

\* the task a dict holds for reg_id, cancelled: t.cancel()
CancelMapped(tasks, d, reg_id) ==
    IF DictHas(d, reg_id)
    THEN {t \in tasks : t.task # DictVal(d, reg_id)}
    ELSE tasks

\* the rest of the selection handler: interaction.response.defer, then
\* send_payment_qr_and_start_timeout, then stop() of the view
PaySend(h, result) ==
    /\ h \in handlers
    /\ h.kind = "pay" /\ h.pc = "send"
    /\ result \in {"ack_failed", "dm_failed", "sent"}
    /\ handlers' = handlers \ {h}
    /\ CASE result = "ack_failed" ->
              \* defer raised: send_payment_qr_and_start_timeout never runs
              UNCHANGED <<regs, REG_BY_ID, REG_BY_MESSAGE,
                          PENDING_EXPIRE_TASKS, PENDING_PAYMENT_TASKS,
                          expireTasks, paymentTasks, views, removed>>
         [] result = "dm_failed" ->
              LET byId == DictPop(REG_BY_ID, h.reg_id)
                  byMsg == REG_BY_MESSAGE \ {h.msg}
              IN  /\ REG_BY_ID' = byId
                  /\ REG_BY_MESSAGE' = byMsg
                  /\ regs' = Collect(regs, byId, byMsg)
                  /\ removed' = Removed(byId, byMsg, "payment_rollback")
                  /\ expireTasks' =
                       CancelMapped(expireTasks, PENDING_EXPIRE_TASKS, h.reg_id)
                  /\ PENDING_EXPIRE_TASKS' =
                       DictPop(PENDING_EXPIRE_TASKS, h.reg_id)
                  /\ views' = views \ {h.view}
                  /\ UNCHANGED <<PENDING_PAYMENT_TASKS, paymentTasks>>
         [] result = "sent" ->
              /\ paymentTasks' = paymentTasks \cup
                   {[task |-> FreshTask, reg_id |-> h.reg_id,
                     due |-> PAYMENT_TIMEOUT_MINUTES * 60]}
              /\ PENDING_PAYMENT_TASKS' =
                   DictSet(PENDING_PAYMENT_TASKS, h.reg_id, FreshTask)
              /\ views' = views \ {h.view}
              /\ UNCHANGED <<regs, REG_BY_ID, REG_BY_MESSAGE,
                             PENDING_EXPIRE_TASKS, expireTasks, removed>>
    /\ UNCHANGED <<REG_COUNTER, BLACKLIST, PAYMENT_VERIFICATION_REQUESTS,
                   disk, diskFaulty, messages, proofs, created, verified>>

\* auto_cancel_payment_timeout after its sleep, up to the audit await.
\* guildOk: bot.get_guild(GUILD_ID) returned the guild
AUTO_BLACKLIST_ON_TIMEOUT == TRUE

\* a timer that finds the registration in any status acts on it
PaymentDueUnchecked(reg) == TRUE

\* `if reg.status == "payment_pending":` of the timer
PaymentDue(reg) == reg.status = "payment_pending"

PaymentTimeout(t, guildOk) ==
    /\ t \in paymentTasks
    /\ t.due <= 0
    /\ guildOk \in BOOLEAN
    /\ paymentTasks' = paymentTasks \ {t}
    /\ LET o == RegById(t.reg_id)
           fires == o # 0 /\ PaymentDue(regs[o])
           byId == IF fires THEN DictPop(REG_BY_ID, regs[o].reg_id)
                   ELSE REG_BY_ID
           byMsg == IF fires THEN REG_BY_MESSAGE \ {regs[o].message_id}
                    ELSE REG_BY_MESSAGE
       IN  /\ REG_BY_ID' = byId
           /\ REG_BY_MESSAGE' = byMsg
           /\ regs' = Collect(regs, byId, byMsg)
           /\ removed' = Removed(byId, byMsg, "payment_timeout")
           /\ PENDING_PAYMENT_TASKS' =
                IF fires THEN DictPop(PENDING_PAYMENT_TASKS, regs[o].reg_id)
                ELSE PENDING_PAYMENT_TASKS
           /\ IF fires /\ guildOk /\ AUTO_BLACKLIST_ON_TIMEOUT
              THEN /\ CanSuspend
                   /\ handlers' = handlers \cup
                        {Handler("timeout", "blacklist", regs[o].message_id,
                                 regs[o].reg_id, NoView, "")}
              ELSE UNCHANGED handlers
    /\ UNCHANGED <<REG_COUNTER, PENDING_EXPIRE_TASKS, expireTasks,
                   BLACKLIST, PAYMENT_VERIFICATION_REQUESTS, disk, diskFaulty,
                   views, messages, proofs, created, verified>>

\* auto_cancel_payment_timeout after the audit record and the notice to the
\* leader: the blacklist entry and its save
TimeoutBlacklist(h, saved) ==
    /\ h \in handlers
    /\ h.kind = "timeout" /\ h.pc = "blacklist"
    /\ saved \in SaveOutcomes
    /\ LET s == messages[h.msg].squad
           entry == [team |-> AutoTeamName(s.display),
                     reason |-> "Payment Timeout"]
           bl == (s.leader :> entry) @@ BLACKLIST
       IN  /\ BLACKLIST' = KeptAfterSave(saved, bl, BLACKLIST)
           /\ disk' = save_state(saved, REG_COUNTER, bl)
    /\ handlers' = handlers \ {h}
    /\ UNCHANGED <<REG_COUNTER, regs, REG_BY_ID, REG_BY_MESSAGE,
                   PENDING_EXPIRE_TASKS, PENDING_PAYMENT_TASKS, expireTasks,
                   paymentTasks, PAYMENT_VERIFICATION_REQUESTS, diskFaulty,
                   views, messages, proofs, created, verified, removed>>

(***************************************************************************)
(* Confirmation.                                                           *)
(***************************************************************************)
VerifiedCount(m) == IF m \in DOMAIN verified THEN verified[m] ELSE 0

\* The awaited calls of confirm_registration after the status is set, in
\* the order of the code.
ConfirmCalls ==
    <<"create_role", "add_roles", "edit", "send", "update_slot_status",
      "update_liveboard", "audit_log">>

\* discord.Forbidden, discord.NotFound, any other discord.HTTPException
CallErrors == {"forbidden", "not_found", "http"}

NoFailure == [call |-> "none", error |-> "none"]

\* what the platform does to one run of the sequence: nothing, or one call
\* raises
CallFailures ==
    {NoFailure}
        \cup {[call |-> ConfirmCalls[i], error |-> e] :
                 i \in DOMAIN ConfirmCalls, e \in CallErrors}

\* The except clauses: `except discord.Forbidden` around the four grant
\* calls, `except (discord.NotFound, discord.Forbidden)` and a second
\* attempt in the board updates, `except Exception` in audit_log.
Swallowed(failed) ==
    CASE failed.call \in {"create_role", "add_roles", "edit", "send"} ->
            failed.error = "forbidden"
      [] failed.call \in {"update_slot_status", "update_liveboard"} ->
            failed.error \in {"forbidden", "not_found"}
      [] OTHER -> TRUE

\* The sequence reaches its last statement, the 'Payment Verified' record:
\* MATCH_TYPES[reg.match_type] raises KeyError for match_type None, and an
\* exception that no except clause names leaves confirm_registration.
SequenceCompletes(reg, failed) ==
    /\ reg.match_type # NoMatchType
    /\ failed = NoFailure \/ Swallowed(failed)

\* a confirmation that leaves the commit of the status to a later step
DeferredStatus(status, failed) == status

\* a confirmation that takes the status back when a call has failed
RolledBackStatus(status, failed) ==
    IF failed = NoFailure THEN "confirmed" ELSE status

\* `reg.status = "confirmed"`, before the first call; nothing after it
\* writes the status
CommittedStatus(status, failed) == "confirmed"

\* confirm_registration(reg, ...) for the object o, with the failure the
\* platform answers one of its calls with.  The calls change nothing in the
\* store; `verified` counts the runs that reach the audit record.
confirm_registration(o, failed) ==
    /\ VerifiedCount(o) < MaxVerified
    /\ paymentTasks' =
         CancelMapped(paymentTasks, PENDING_PAYMENT_TASKS, regs[o].reg_id)
    /\ PENDING_PAYMENT_TASKS' = DictPop(PENDING_PAYMENT_TASKS, regs[o].reg_id)
    /\ regs' = [regs EXCEPT
                  ![o].status = CommittedStatus(regs[o].status, failed)]
    /\ verified' =
         IF SequenceCompletes(regs[o], failed)
         THEN (o :> (VerifiedCount(o) + 1)) @@ verified
         ELSE verified

\* `for r in REG_BY_ID.values(): if r.team_name.lower() == ...: break`
FirstByTeam(team_name) ==
    LET hits == {i \in DOMAIN REG_BY_ID :
                    Lower(RegValues[i].team_name) = Lower(team_name)}
    IN  IF hits = {} THEN 0
        ELSE REG_BY_ID[CHOOSE i \in hits : \A j \in hits : i <= j].val

\* staff command markpaid <team name>
MarkpaidCmd(team_name, failed) ==
    LET o == FirstByTeam(team_name)
    IN  IF o = 0 \/ regs[o].status = "confirmed"
        THEN UNCHANGED vars
        ELSE /\ confirm_registration(o, failed)
             /\ UNCHANGED <<REG_COUNTER, REG_BY_ID, REG_BY_MESSAGE,
                            PENDING_EXPIRE_TASKS, expireTasks, BLACKLIST,
                            PAYMENT_VERIFICATION_REQUESTS, disk, diskFaulty,
                            views, handlers, messages, proofs, created,
                            removed>>

\* dashboard POST /api/markpaid: the lookup by team name, then the coroutine
\* _markpaid_by_reg_id is scheduled on the bot's loop
ApiMarkpaid(team_name) ==
    LET o == FirstByTeam(team_name)
    IN  IF o = 0
        THEN UNCHANGED vars
        ELSE /\ CanSuspend
             /\ handlers' = handlers \cup
                  {Handler("dashboard", "run", 0, regs[o].reg_id, NoView, "")}
             /\ UNCHANGED <<REG_COUNTER, regs, REG_BY_ID, REG_BY_MESSAGE,
                            PENDING_EXPIRE_TASKS, PENDING_PAYMENT_TASKS,
                            expireTasks, paymentTasks, BLACKLIST,
                            PAYMENT_VERIFICATION_REQUESTS, disk, diskFaulty,
                            views, messages, proofs, created, verified, removed>>

\* _markpaid_by_reg_id
MarkpaidByRegId(h, failed) ==
    /\ h \in handlers
    /\ h.kind = "dashboard" /\ h.pc = "run"
    /\ handlers' = handlers \ {h}
    /\ LET o == RegById(h.reg_id)
       IN  IF o = 0
           THEN UNCHANGED <<regs, PENDING_PAYMENT_TASKS, paymentTasks,
                            verified>>
           ELSE confirm_registration(o, failed)
    /\ UNCHANGED <<REG_COUNTER, REG_BY_ID, REG_BY_MESSAGE,
                   PENDING_EXPIRE_TASKS, expireTasks, BLACKLIST,
                   PAYMENT_VERIFICATION_REQUESTS, disk, diskFaulty, views,
                   messages, proofs, created, removed>>

(***************************************************************************)
(* Payment proofs and staff reactions.                                     *)
(***************************************************************************)
\* handle_dm_payment_message up to its first await: the latest
\* payment_pending registration of the sender
LatestPaymentPending(leader) ==
    LET cand == {i \in DOMAIN REG_BY_ID :
                    /\ RegValues[i].leader_id = leader
                    /\ RegValues[i].status = "payment_pending"}
        best == {i \in cand :
                    \A j \in cand :
                        RegValues[j].created_at <= RegValues[i].created_at}
    IN  IF cand = {} THEN 0
        ELSE REG_BY_ID[CHOOSE i \in best : \A j \in best : i <= j].val

ProofReceived(leader) ==
    LET o == LatestPaymentPending(leader)
    IN  IF o = 0
        THEN UNCHANGED vars
        ELSE /\ proofs + Cardinality({h \in handlers : h.kind = "proof"})
                  < MaxProofs
             /\ CanSuspend
             /\ handlers' = handlers \cup
                  {Handler("proof", "forward", 0, regs[o].reg_id, NoView, "")}
             /\ UNCHANGED <<REG_COUNTER, regs, REG_BY_ID, REG_BY_MESSAGE,
                            PENDING_EXPIRE_TASKS, PENDING_PAYMENT_TASKS,
                            expireTasks, paymentTasks, BLACKLIST,
                            PAYMENT_VERIFICATION_REQUESTS, disk, diskFaulty,
                            views, messages, proofs, created, verified, removed>>

\* handle_dm_payment_message after staff_channel.send: the staff message is
\* remembered
ProofForwarded(h) ==
    /\ h \in handlers
    /\ h.kind = "proof" /\ h.pc = "forward"
    /\ proofs' = proofs + 1
    /\ PAYMENT_VERIFICATION_REQUESTS' =
         DictSet(PAYMENT_VERIFICATION_REQUESTS, proofs + 1, h.reg_id)
    /\ handlers' = handlers \ {h}
    /\ UNCHANGED <<REG_COUNTER, regs, REG_BY_ID, REG_BY_MESSAGE,
                   PENDING_EXPIRE_TASKS, PENDING_PAYMENT_TASKS, expireTasks,
                   paymentTasks, BLACKLIST, disk, diskFaulty, views, messages,
                   created, verified, removed>>

\* on_raw_reaction_add up to channel.fetch_message
ReactionAdd(staff_msg, emoji) ==
    /\ DictHas(PAYMENT_VERIFICATION_REQUESTS, staff_msg)
    /\ emoji \in {"approve", "reject"}
    /\ CanSuspend
    /\ handlers' = handlers \cup
         {Handler("reaction", "fetch", staff_msg,
                  DictVal(PAYMENT_VERIFICATION_REQUESTS, staff_msg),
                  NoView, emoji)}
    /\ UNCHANGED <<REG_COUNTER, regs, REG_BY_ID, REG_BY_MESSAGE,
                   PENDING_EXPIRE_TASKS, PENDING_PAYMENT_TASKS, expireTasks,
                   paymentTasks, BLACKLIST, PAYMENT_VERIFICATION_REQUESTS,
                   disk, diskFaulty, views, messages, proofs, created,
                   verified, removed>>

\* on_raw_reaction_add from REG_BY_ID.get(reg_id) to the next await
ReactionResume(h, failed) ==
    /\ h \in handlers
    /\ h.kind = "reaction" /\ h.pc = "fetch"
    /\ LET o == RegById(h.reg_id)
       IN  IF o = 0
           THEN /\ handlers' = handlers \ {h}
                /\ UNCHANGED <<regs, REG_BY_ID, REG_BY_MESSAGE,
                               PENDING_PAYMENT_TASKS, paymentTasks, verified,
                               removed>>
           ELSE IF h.arg = "approve"
           THEN /\ confirm_registration(o, failed)
                /\ handlers' =
                     IF SequenceCompletes(regs[o], failed)
                     THEN (handlers \ {h}) \cup {[h EXCEPT !.pc = "cleanup"]}
                     ELSE handlers \ {h}
                /\ UNCHANGED <<REG_BY_ID, REG_BY_MESSAGE, removed>>
           ELSE LET byId == DictPop(REG_BY_ID, regs[o].reg_id)
                    byMsg == REG_BY_MESSAGE \ {regs[o].message_id}
                IN  /\ paymentTasks' =
                         CancelMapped(paymentTasks, PENDING_PAYMENT_TASKS,
                                      regs[o].reg_id)
                    /\ PENDING_PAYMENT_TASKS' =
                         DictPop(PENDING_PAYMENT_TASKS, regs[o].reg_id)
                    /\ REG_BY_ID' = byId
                    /\ REG_BY_MESSAGE' = byMsg
                    /\ regs' = Collect(regs, byId, byMsg)
                    /\ removed' = Removed(byId, byMsg, "rejected")
                    /\ handlers' =
                         (handlers \ {h}) \cup {[h EXCEPT !.pc = "cleanup"]}
                    /\ UNCHANGED verified
    /\ UNCHANGED <<REG_COUNTER, PENDING_EXPIRE_TASKS, expireTasks,
                   BLACKLIST, PAYMENT_VERIFICATION_REQUESTS, disk, diskFaulty,
                   views, messages, proofs, created>>

\* on_raw_reaction_add, last statement of either branch
ReactionCleanup(h) ==
    /\ h \in handlers
    /\ h.kind = "reaction" /\ h.pc = "cleanup"
    /\ PAYMENT_VERIFICATION_REQUESTS' =
         DictPop(PAYMENT_VERIFICATION_REQUESTS, h.msg)
    /\ handlers' = handlers \ {h}
    /\ UNCHANGED <<REG_COUNTER, regs, REG_BY_ID, REG_BY_MESSAGE,
                   PENDING_EXPIRE_TASKS, PENDING_PAYMENT_TASKS, expireTasks,
                   paymentTasks, BLACKLIST, disk, diskFaulty, views, messages,
                   proofs, created, verified, removed>>

(***************************************************************************)
(* Staff commands on the store and the blacklist.                          *)
(***************************************************************************)
\* staff command cancel_slot <team name>
CancelSlot(team_name) ==
    LET o == FirstByTeam(team_name)
    IN  IF o = 0
        THEN UNCHANGED vars
        ELSE LET byId == DictPop(REG_BY_ID, regs[o].reg_id)
                 byMsg == REG_BY_MESSAGE \ {regs[o].message_id}
             IN  /\ paymentTasks' =
                      CancelMapped(paymentTasks, PENDING_PAYMENT_TASKS,
                                   regs[o].reg_id)
                 /\ PENDING_PAYMENT_TASKS' =
                      DictPop(PENDING_PAYMENT_TASKS, regs[o].reg_id)
                 /\ REG_BY_ID' = byId
                 /\ REG_BY_MESSAGE' = byMsg
                 /\ regs' = Collect(regs, byId, byMsg)
                 /\ removed' = Removed(byId, byMsg, "cancelled")
                 /\ UNCHANGED <<REG_COUNTER, PENDING_EXPIRE_TASKS,
                                expireTasks, BLACKLIST,
                                PAYMENT_VERIFICATION_REQUESTS, disk,
                                diskFaulty, views, handlers, messages, proofs,
                                created, verified>>

\* staff command blacklist add <leader id>
BlacklistAdd(lid, saved) ==
    /\ saved \in SaveOutcomes
    /\ LET entry == [team |-> << >>, reason |-> "Manual blacklist"]
           bl == (lid :> entry) @@ BLACKLIST
       IN  /\ BLACKLIST' = KeptAfterSave(saved, bl, BLACKLIST)
           /\ disk' = save_state(saved, REG_COUNTER, bl)
    /\ UNCHANGED <<REG_COUNTER, regs, REG_BY_ID, REG_BY_MESSAGE,
                   PENDING_EXPIRE_TASKS, PENDING_PAYMENT_TASKS, expireTasks,
                   paymentTasks, PAYMENT_VERIFICATION_REQUESTS, diskFaulty,
                   views, handlers, messages, proofs, created, verified, removed>>

\* staff command blacklist remove <leader id>
BlacklistRemove(lid, saved) ==
    /\ saved \in SaveOutcomes
    /\ IF lid \in DOMAIN BLACKLIST
       THEN LET bl == [k \in DOMAIN BLACKLIST \ {lid} |-> BLACKLIST[k]]
            IN  /\ BLACKLIST' = KeptAfterSave(saved, bl, BLACKLIST)
                /\ disk' = save_state(saved, REG_COUNTER, bl)
       ELSE UNCHANGED <<BLACKLIST, disk>>
    /\ UNCHANGED <<REG_COUNTER, regs, REG_BY_ID, REG_BY_MESSAGE,
                   PENDING_EXPIRE_TASKS, PENDING_PAYMENT_TASKS, expireTasks,
                   paymentTasks, PAYMENT_VERIFICATION_REQUESTS, diskFaulty,
                   views, handlers, messages, proofs, created, verified, removed>>

(***************************************************************************)
(* The ready event (start-up and every reconnect): load_state.             *)
(***************************************************************************)
load_state == IF disk.readable THEN disk ELSE NoFile

OnReady ==
    /\ BLACKLIST' = load_state.blacklist
    /\ REG_COUNTER' = load_state.reg_counter
    /\ UNCHANGED <<regs, REG_BY_ID, REG_BY_MESSAGE, PENDING_EXPIRE_TASKS,
                   PENDING_PAYMENT_TASKS, expireTasks, paymentTasks,
                   PAYMENT_VERIFICATION_REQUESTS, disk, diskFaulty, views,
                   handlers, messages, proofs, created, verified, removed>>

(***************************************************************************)
(* Initial states.                                                         *)
(***************************************************************************)
InitStore(faulty) ==
    /\ REG_COUNTER = 0
    /\ regs = << >>
    /\ REG_BY_ID = << >>
    /\ REG_BY_MESSAGE = {}
    /\ PENDING_EXPIRE_TASKS = << >>
    /\ PENDING_PAYMENT_TASKS = << >>
    /\ expireTasks = {}
    /\ paymentTasks = {}
    /\ BLACKLIST = << >>
    /\ PAYMENT_VERIFICATION_REQUESTS = << >>
    /\ disk = NoFile
    /\ diskFaulty = faulty
    /\ views = {}
    /\ handlers = {}
    /\ messages = << >>
    /\ proofs = 0
    /\ created = << >>
    /\ verified = << >>
    /\ removed = << >>

\* the module as loaded, state.json absent, the disk healthy
Init == InitStore(FALSE)

\* the same with a disk on which writes can fail
InitFaulty == InitStore(TRUE)

\* A lobby one slot short of full: C_LOBBY - 1 squads have registered in
\* lobby "12pm", chosen a match type and been confirmed by markpaid, more
\* than the grace window ago.  Their expiry tasks have run to completion; the
\* code never takes a finished expiry task out of PENDING_EXPIRE_TASKS.
FillerCount == C_LOBBY - 1

FillerMessage(i) == 1000 + i

FillerMatchType(i) ==
    CASE i % 3 = 0 -> "special" [] i % 3 = 1 -> "mini" [] OTHER -> "mega"

FillerReg(i) ==
    [reg_id |-> i,
     lobby_key |-> "12pm",
     message_id |-> FillerMessage(i),
     team_name |-> AutoTeamName(FillerName(i)),
     leader_id |-> 100 + i,
     player_ids |-> <<2000 + 10 * i + 1, 2000 + 10 * i + 2,
                      2000 + 10 * i + 3, 2000 + 10 * i + 4>>,
     match_type |-> FillerMatchType(i),
     entry_fee |-> MATCH_TYPES[FillerMatchType(i)][1],
     status |-> "confirmed",
     created_at |-> -AgeCap]

InitFull ==
    /\ REG_COUNTER = FillerCount
    /\ regs = [m \in {FillerMessage(i) : i \in 1..FillerCount} |->
                 FillerReg(m - FillerMessage(0))]
    /\ REG_BY_ID = [i \in 1..FillerCount |->
                      [key |-> i, val |-> FillerMessage(i)]]
    /\ REG_BY_MESSAGE = {FillerMessage(i) : i \in 1..FillerCount}
    /\ PENDING_EXPIRE_TASKS = [i \in 1..FillerCount |->
                                 [key |-> i, val |-> FillerMessage(i)]]
    /\ PENDING_PAYMENT_TASKS = << >>
    /\ expireTasks = {}
    /\ paymentTasks = {}
    /\ BLACKLIST = << >>
    /\ PAYMENT_VERIFICATION_REQUESTS = << >>
    /\ disk = [readable |-> TRUE, reg_counter |-> FillerCount,
               blacklist |-> << >>]
    /\ diskFaulty = FALSE
    /\ views = {}
    /\ handlers = {}
    /\ messages = << >>
    /\ proofs = 0
    /\ created = [i \in 1..FillerCount |-> i]
    /\ verified = [m \in {FillerMessage(i) : i \in 1..FillerCount} |-> 1]
    /\ removed = << >>

(***************************************************************************)
(* Inputs of the environment.                                              *)
(***************************************************************************)
\* team names typed by staff: "team-ron", "Team-Ana"
StaffTeamNames ==
    {Lower(AutoTeamName(DisplayName[1])), AutoTeamName(DisplayName[3])}

\* the team name staff type in SpecConfirm: "team-ron"
StaffTeamName == Lower(AutoTeamName(DisplayName[1]))

Leaders == {1, 2, 3}

AllFees == {25, 30, 35, 45, 55}

DmResults == {"reply_failed", "no_member", "dm_failed", "dm_sent"}

BlacklistIds == {3}

PayResults == {"ack_failed", "dm_failed", "sent"}

Emojis == {"approve", "reject"}

(***************************************************************************)
(* Spec: the whole life of one registration, with every trigger that can   *)
(* act on it.                                                              *)
(***************************************************************************)
Next ==
    \/ \E i \in {1, 5} : OnMessage(Squads[i], MaxMsgs)
    \/ \E h \in handlers : \E saved \in SaveOutcomes : OnMessageCreate(h, saved)
    \/ \E h \in handlers : \E r \in DmResults : OnMessageDm(h, r)
    \/ Tick
    \/ \E t \in expireTasks : ExpirePending(t)
    \/ \E v \in views : \E mt \in MatchTypeKeys : MatchTypeChoice(v, mt)
    \/ \E h \in handlers : FeeViewSent(h)
    \/ \E v \in views : \E fee \in AllFees : FeeButtonCallback(v, fee)
    \/ \E h \in handlers : \E r \in PayResults : PaySend(h, r)
    \/ \E t \in paymentTasks : \E g \in BOOLEAN : PaymentTimeout(t, g)
    \/ \E h \in handlers : \E saved \in SaveOutcomes : TimeoutBlacklist(h, saved)
    \/ \E n \in StaffTeamNames : MarkpaidCmd(n, NoFailure)
    \/ \E n \in StaffTeamNames : ApiMarkpaid(n)
    \/ \E h \in handlers : MarkpaidByRegId(h, NoFailure)
    \/ \E l \in Leaders : ProofReceived(l)
    \/ \E h \in handlers : ProofForwarded(h)
    \/ \E m \in 1..MaxProofs : \E e \in Emojis : ReactionAdd(m, e)
    \/ \E h \in handlers : ReactionResume(h, NoFailure)
    \/ \E h \in handlers : ReactionCleanup(h)
    \/ \E n \in StaffTeamNames : CancelSlot(n)

Spec == Init /\ [][Next]_vars

(***************************************************************************)
(* SpecSubmit: several squads submitting at once; selection of the         *)
(* single-fee match type, markpaid and cancel_slot move them on.           *)
(***************************************************************************)
NextSubmit ==
    \/ \E i \in DOMAIN Squads : OnMessage(Squads[i], MaxSubmissions)
    \/ \E h \in handlers : \E saved \in SaveOutcomes : OnMessageCreate(h, saved)
    \/ \E h \in handlers : OnMessageDm(h, "dm_sent")
    \/ Tick
    \/ \E t \in expireTasks : ExpirePending(t)
    \/ \E v \in views : MatchTypeChoice(v, "special")
    \/ \E h \in handlers : PaySend(h, "sent")
    \/ \E n \in StaffTeamNames : MarkpaidCmd(n, NoFailure)

SpecSubmit == Init /\ [][NextSubmit]_vars

(***************************************************************************)
(* SpecFull: two more squads arrive at a lobby one slot short of full.     *)
(***************************************************************************)
NextFull ==
    \/ \E i \in {1, 2, 3} : OnMessage(Squads[i], MaxFullMsgs)
    \/ \E h \in handlers : \E saved \in SaveOutcomes : OnMessageCreate(h, saved)
    \/ \E h \in handlers : OnMessageDm(h, "dm_sent")
    \/ \E v \in views : \E mt \in {"special", "mini"} : MatchTypeChoice(v, mt)
    \/ \E h \in handlers : FeeViewSent(h)
    \/ \E v \in views : \E fee \in AllFees : FeeButtonCallback(v, fee)
    \/ \E h \in handlers : \E r \in PayResults : PaySend(h, r)
    \/ \E n \in StaffTeamNames : CancelSlot(n)

SpecFull == InitFull /\ [][NextFull]_vars

(***************************************************************************)
(* SpecFaulty: submissions and reconnects on a disk whose writes can fail. *)
(***************************************************************************)
NextFaulty ==
    \/ \E i \in {1, 3} : OnMessage(Squads[i], MaxFaultyMsgs)
    \/ \E h \in handlers : \E saved \in SaveOutcomes : OnMessageCreate(h, saved)
    \/ \E h \in handlers : \E r \in DmResults : OnMessageDm(h, r)
    \/ Tick
    \/ \E t \in expireTasks : ExpirePending(t)
    \/ \E l \in BlacklistIds : \E saved \in SaveOutcomes : BlacklistAdd(l, saved)
    \/ \E l \in BlacklistIds : \E saved \in SaveOutcomes :
          BlacklistRemove(l, saved)
    \/ OnReady

SpecFaulty == InitFaulty /\ [][NextFaulty]_vars

(***************************************************************************)
(* SpecEntry: the entry checks of on_message.  Two submissions out of all  *)
(* the squads, a registration that reaches payment_pending and can time    *)
(* out (which blacklists its leader), and the staff blacklist commands.    *)
(***************************************************************************)
NextEntry ==
    \/ \E i \in DOMAIN Squads : OnMessage(Squads[i], MaxEntryMsgs)
    \/ \E h \in handlers : \E saved \in SaveOutcomes : OnMessageCreate(h, saved)
    \/ \E h \in handlers : OnMessageDm(h, "dm_sent")
    \/ Tick
    \/ \E v \in views : MatchTypeChoice(v, "special")
    \/ \E h \in handlers : PaySend(h, "sent")
    \/ \E t \in paymentTasks : PaymentTimeout(t, TRUE)
    \/ \E h \in handlers : \E saved \in SaveOutcomes : TimeoutBlacklist(h, saved)
    \/ \E l \in BlacklistIds : \E saved \in SaveOutcomes : BlacklistAdd(l, saved)
    \/ \E l \in BlacklistIds : \E saved \in SaveOutcomes :
          BlacklistRemove(l, saved)

SpecEntry == Init /\ [][NextEntry]_vars

(***************************************************************************)
(* SpecConfirm: one registration on its way to confirmation by any of the  *)
(* three entry points, with the platform failing any one call of the       *)
(* confirmation sequence.  The other specifications run the sequence       *)
(* without failures.                                                       *)
(***************************************************************************)
NextConfirm ==
    \/ OnMessage(Squads[1], MaxConfirmMsgs)
    \/ \E h \in handlers : \E saved \in SaveOutcomes : OnMessageCreate(h, saved)
    \/ \E h \in handlers : OnMessageDm(h, "dm_sent")
    \/ Tick
    \/ \E v \in views : \E mt \in MatchTypeKeys : MatchTypeChoice(v, mt)
    \/ \E h \in handlers : FeeViewSent(h)
    \/ \E v \in views : \E fee \in AllFees : FeeButtonCallback(v, fee)
    \/ \E h \in handlers : PaySend(h, "sent")
    \/ \E t \in paymentTasks : PaymentTimeout(t, TRUE)
    \/ \E h \in handlers : \E saved \in SaveOutcomes : TimeoutBlacklist(h, saved)
    \/ \E f \in CallFailures : MarkpaidCmd(StaffTeamName, f)
    \/ ApiMarkpaid(StaffTeamName)
    \/ \E h \in handlers : \E f \in CallFailures : MarkpaidByRegId(h, f)
    \/ \E l \in Leaders : ProofReceived(l)
    \/ \E h \in handlers : ProofForwarded(h)
    \/ \E m \in 1..MaxProofs : \E e \in Emojis : ReactionAdd(m, e)
    \/ \E h \in handlers : \E f \in CallFailures : ReactionResume(h, f)
    \/ \E h \in handlers : ReactionCleanup(h)
    \/ CancelSlot(StaffTeamName)

SpecConfirm == Init /\ [][NextConfirm]_vars

(***************************************************************************)
(* SpecSave: every caller of save_state on a disk on which writes can      *)
(* fail: the creation of a registration, the payment timeout that          *)
(* blacklists its leader, and the staff blacklist commands.                *)
(***************************************************************************)
NextSave ==
    \/ \E i \in {1, 3} : OnMessage(Squads[i], MaxSaveMsgs)
    \/ \E h \in handlers : \E saved \in SaveOutcomes : OnMessageCreate(h, saved)
    \/ \E h \in handlers : OnMessageDm(h, "dm_sent")
    \/ Tick
    \/ \E v \in views : MatchTypeChoice(v, "special")
    \/ \E h \in handlers : PaySend(h, "sent")
    \/ \E t \in paymentTasks : PaymentTimeout(t, TRUE)
    \/ \E h \in handlers : \E saved \in SaveOutcomes : TimeoutBlacklist(h, saved)
    \/ \E l \in BlacklistIds : \E saved \in SaveOutcomes : BlacklistAdd(l, saved)
    \/ \E l \in BlacklistIds : \E saved \in SaveOutcomes :
          BlacklistRemove(l, saved)

SpecSave == InitFaulty /\ [][NextSave]_vars

(***************************************************************************)
(* SpecLive: one registration from submission to the payment phase, with   *)
(* every outcome of the calls between the selection and the arming of the  *)
(* payment timer.  Time passes, a timer that is due fires, and a handler   *)
(* suspended at an await is resumed: the event loop runs every task that   *)
(* is ready.  Staff may confirm by markpaid, but nothing makes them.       *)
(***************************************************************************)
NextLive ==
    \/ OnMessage(Squads[1], MaxLiveMsgs)
    \/ \E h \in handlers : \E saved \in SaveOutcomes : OnMessageCreate(h, saved)
    \/ \E h \in handlers : OnMessageDm(h, "dm_sent")
    \/ Tick
    \/ \E t \in expireTasks : ExpirePending(t)
    \/ \E v \in views : \E mt \in MatchTypeKeys : MatchTypeChoice(v, mt)
    \/ \E h \in handlers : FeeViewSent(h)
    \/ \E v \in views : \E fee \in AllFees : FeeButtonCallback(v, fee)
    \/ \E h \in handlers : \E r \in PayResults : PaySend(h, r)
    \/ \E t \in paymentTasks : PaymentTimeout(t, TRUE)
    \/ \E h \in handlers : \E saved \in SaveOutcomes : TimeoutBlacklist(h, saved)
    \/ MarkpaidCmd(StaffTeamName, NoFailure)

Fairness ==
    /\ WF_vars(Tick)
    /\ WF_vars(\E t \in expireTasks : ExpirePending(t))
    /\ WF_vars(\E t \in paymentTasks : PaymentTimeout(t, TRUE))
    /\ WF_vars(\E h \in handlers : \E saved \in SaveOutcomes :
                  OnMessageCreate(h, saved))
    /\ WF_vars(\E h \in handlers : OnMessageDm(h, "dm_sent"))
    /\ WF_vars(\E h \in handlers : FeeViewSent(h))
    /\ WF_vars(\E h \in handlers : \E r \in PayResults : PaySend(h, r))
    /\ WF_vars(\E h \in handlers : \E saved \in SaveOutcomes :
                  TimeoutBlacklist(h, saved))

SpecLive == Init /\ [][NextLive]_vars /\ Fairness

(***************************************************************************)
(* Properties.                                                             *)
(***************************************************************************)
LobbyKeys == {Squads[i].lobby : i \in DOMAIN Squads}

StatusOf(rs, o) == IF o \in DOMAIN rs THEN rs[o].status ELSE "removed"

SharesPlayer(reg, player_ids) ==
    \E j \in DOMAIN player_ids : Contains(reg.player_ids, player_ids[j])

\* C1: in every reachable state every lobby has at most C_LOBBY
\* registrations in status payment_pending or confirmed.  Under SpecFull a
\* squad that was shown the fee buttons while a slot was free takes the
\* 37th place.
CapacityBound ==
    \A lobby \in LobbyKeys : reserved_slots_count(lobby) <= C_LOBBY

\* C2: every change of a registration's status is an edge of the lifecycle
\* graph; in particular none goes from pending straight to confirmed and
\* none leaves confirmed.
LifecycleGraph ==
    {<<"pending", "payment_pending">>, <<"payment_pending", "confirmed">>,
     <<"pending", "removed">>, <<"payment_pending", "removed">>}

LifecycleEdges ==
    [][\A o \in DOMAIN regs :
          \/ StatusOf(regs', o) = regs[o].status
          \/ <<regs[o].status, StatusOf(regs', o)>> \in LifecycleGraph]_vars

\* C3: however often a registration is confirmed, the grant sequence runs
\* to its 'Payment Verified' record at most once.
ConfirmOnce == \A m \in DOMAIN verified : verified[m] <= 1

\* C4: of a payment timeout and a staff approval of the same registration
\* exactly one takes effect.  A registration removed by the timeout was
\* never granted access and is never confirmed afterwards; the timeout's
\* blacklisting runs, and a leader is auto-blacklisted, only for a
\* registration the timeout removed, so never for one that stays confirmed.
TimedOut(m) == m \in DOMAIN removed /\ removed[m] = "payment_timeout"

TimeoutRace ==
    /\ \A m \in DOMAIN removed :
          TimedOut(m) => m \notin DOMAIN regs /\ VerifiedCount(m) = 0
    /\ \A o \in DOMAIN regs :
          regs[o].status = "confirmed" =>
              \A h \in handlers : h.kind = "timeout" => h.msg # o
    /\ \A h \in handlers : h.kind = "timeout" => TimedOut(h.msg)
    /\ \A l \in DOMAIN BLACKLIST :
          BLACKLIST[l].reason = "Payment Timeout" =>
              \E m \in DOMAIN removed :
                  TimedOut(m) /\ messages[m].squad.leader = l

\* C4, its case: the timer has removed a registration while an approval
\* reaction for it was waiting on fetch_message; the approval will find
\* nothing to confirm.
TimeoutRaceWitness ==
    \E h \in handlers :
        /\ h.kind = "reaction" /\ h.pc = "fetch" /\ h.arg = "approve"
        /\ \E t \in handlers :
              t.kind = "timeout" /\ t.reg_id = h.reg_id /\ TimedOut(t.msg)

\* C5: the ids of the registrations created so far, in creation order, are
\* strictly increasing, hence pairwise distinct.
IdsIncreasing ==
    \A i, j \in DOMAIN created : i < j => created[i] < created[j]

\* C5, its case: two submissions were handled concurrently, the later
\* message was the first to resume and holds the smaller id.
IdsIncreasingWitness ==
    \E a, b \in DOMAIN regs : a < b /\ regs[a].reg_id > regs[b].reg_id

\* C6: no registration receives an id that an earlier one held.  Under
\* SpecFaulty a save that failed followed by the ready event sets the
\* counter back.
NeverReused ==
    \A i, j \in DOMAIN created : i # j => created[i] # created[j]

\* C7: is_duplicate_registration is true exactly when the store holds a
\* registration of the same lobby that is payment_pending or confirmed and
\* has the same team name up to case or a player in common.
EqualIgnoringCase(a, b) ==
    /\ Len(a) = Len(b)
    /\ \A i \in DOMAIN a :
          \/ a[i] = b[i]
          \/ a[i] \in 65..90 /\ b[i] = a[i] + 32
          \/ b[i] \in 65..90 /\ a[i] = b[i] + 32

Collides(reg, lobby_key, team_name, player_ids) ==
    /\ reg.lobby_key = lobby_key
    /\ reg.status \in {"payment_pending", "confirmed"}
    /\ \/ EqualIgnoringCase(reg.team_name, team_name)
       \/ SharesPlayer(reg, player_ids)

DuplicateExactly ==
    \A i \in DOMAIN Squads : \A lobby \in LobbyKeys : \A l \in Leaders :
        LET team_name == AutoTeamName(DisplayName[l])
            player_ids == Squads[i].mentions
        IN  is_duplicate_registration(lobby, team_name, player_ids)
            <=> \E k \in DOMAIN REG_BY_ID :
                    Collides(RegValues[k], lobby, team_name, player_ids)

\* C7, its case: "Team-Ron" holds a slot in lobby 12pm; "Team-RON" with
\* other players is a duplicate there and is none in lobby 03pm.
DuplicateExactlyWitness ==
    /\ \E k \in DOMAIN REG_BY_ID :
          /\ RegValues[k].team_name = AutoTeamName(DisplayName[1])
          /\ RegValues[k].lobby_key = "12pm"
          /\ RegValues[k].status = "payment_pending"
    /\ is_duplicate_registration("12pm", AutoTeamName(DisplayName[2]),
                                 Squads[2].mentions)
    /\ ~ is_duplicate_registration("03pm", AutoTeamName(DisplayName[2]),
                                   Squads[2].mentions)

\* C8: a submission that mentions a player of a confirmed registration of
\* its lobby is rejected and creates nothing; a well-formed submission of a
\* leader who is not blacklisted, whose only collisions are with pending
\* registrations older than the grace window, is accepted, and an accepted
\* submission creates a pending registration.
DuplicateRule ==
    [][/\ Len(messages') = Len(messages) + 1 =>
            LET m == Len(messages')
                s == messages'[m].squad
                accepted == messages'[m].verdict = "accepted"
                holders == {k \in DOMAIN REG_BY_ID :
                               /\ RegValues[k].lobby_key = s.lobby
                               /\ SharesPlayer(RegValues[k], s.mentions)}
                namesakes == {k \in DOMAIN REG_BY_ID :
                                 /\ RegValues[k].lobby_key = s.lobby
                                 /\ EqualIgnoringCase(RegValues[k].team_name,
                                        AutoTeamName(s.display))}
                stale(k) == /\ RegValues[k].status = "pending"
                            /\ Elapsed(RegValues[k].created_at)
                                 > GRACE_MINUTES * 60
            IN  /\ (\E k \in holders : RegValues[k].status = "confirmed") =>
                      /\ ~ accepted
                      /\ regs' = regs
                      /\ handlers' = handlers
                /\ ( /\ Len(s.mentions) = MENTIONS_REQUIRED
                     /\ s.leader \notin DOMAIN BLACKLIST
                     /\ holders # {}
                     /\ \A k \in holders \cup namesakes : stale(k) ) =>
                      /\ accepted
                      /\ \E h \in handlers' \ handlers :
                            h.pc = "create" /\ h.msg = m
       /\ \A h \in handlers \ handlers' :
             h.kind = "on_message" /\ h.pc = "create" =>
                 /\ h.msg \notin DOMAIN regs
                 /\ h.msg \in DOMAIN regs'
                 /\ regs'[h.msg].status = "pending"]_vars

\* C8, its case: a submission has just been accepted although a pending
\* registration older than the grace window holds one of its players.
DuplicateRuleWitness ==
    \E h \in handlers : \E k \in DOMAIN REG_BY_ID :
        /\ h.kind = "on_message" /\ h.pc = "create"
        /\ RegValues[k].status = "pending"
        /\ Elapsed(RegValues[k].created_at) > GRACE_MINUTES * 60
        /\ RegValues[k].lobby_key = messages[h.msg].squad.lobby
        /\ SharesPlayer(RegValues[k], messages[h.msg].squad.mentions)

\* C9: a reject reaction removes a registration only from payment_pending.
RejectOnlyUnpaid ==
    [][\A o \in DOMAIN regs :
          (o \notin DOMAIN regs' /\ removed'[o] = "rejected") =>
              regs[o].status = "payment_pending"]_vars

\* C10: cancel_slot removes a registration only from pending or
\* payment_pending.
CancelOnlyOpen ==
    [][\A o \in DOMAIN regs :
          (o \notin DOMAIN regs' /\ removed'[o] = "cancelled") =>
              regs[o].status \in {"pending", "payment_pending"}]_vars

\* some index of the store still holds the registration
Indexed(byId, byMsg, o) ==
    o \in byMsg \/ \E i \in DOMAIN byId : byId[i].val = o

\* C11: creation arms an expiry timer of 5 minutes and records it; a
\* pending registration in the store always has its expiry timer
\* outstanding; and when the timer fires on a registration still pending,
\* the registration leaves both indices of the store.
ExpiryRemoves ==
    /\ [](\A o \in DOMAIN regs :
            regs[o].status = "pending" =>
                \E t \in expireTasks : t.reg_id = regs[o].reg_id)
    /\ [][/\ \A o \in DOMAIN regs' \ DOMAIN regs :
                /\ regs'[o].status = "pending"
                /\ DictHas(PENDING_EXPIRE_TASKS', regs'[o].reg_id)
                /\ \E t \in expireTasks' \ expireTasks :
                      t.reg_id = regs'[o].reg_id /\ t.due = EXPIRE_SECONDS
          /\ \A t \in expireTasks :
                ExpirePending(t) =>
                    \A o \in DOMAIN regs :
                        (regs[o].reg_id = t.reg_id
                           /\ regs[o].status = "pending") =>
                            ~ Indexed(REG_BY_ID', REG_BY_MESSAGE', o)]_vars

\* C11, its case: a registration nobody acted on has been removed by its
\* expiry timer.
ExpiryRemovesWitness ==
    \E m \in DOMAIN removed :
        /\ removed[m] = "expired"
        /\ ~ Indexed(REG_BY_ID, REG_BY_MESSAGE, m)
        /\ m \notin DOMAIN verified

\* registrations of the store that hold a slot of the lobby
ReservedIn(lobby_key) ==
    Cardinality({i \in DOMAIN REG_BY_ID :
                    /\ RegValues[i].lobby_key = lobby_key
                    /\ RegValues[i].status \in {"payment_pending",
                                                "confirmed"}})

\* C12: a match type chosen while the lobby has C_LOBBY reserved
\* registrations changes nothing: the registration, its timers, the
\* prompt and everything else stay as they were.  And the prompt of a
\* pending registration takes a choice as soon as the lobby has a free slot
\* again.
CapacityRefusal ==
    /\ [][\A v \in views : \A mt \in MatchTypeKeys :
            ( /\ MatchTypeChoice(v, mt)
              /\ v.kind = "MatchTypeView"
              /\ RegById(v.reg_id) # 0
              /\ ReservedIn(v.lobby_key) >= C_LOBBY ) => UNCHANGED vars]_vars
    /\ [](\A v \in views :
            ( /\ v.kind = "MatchTypeView"
              /\ RegById(v.reg_id) # 0
              /\ regs[RegById(v.reg_id)].status = "pending"
              /\ ReservedIn(v.lobby_key) < C_LOBBY
              /\ CanSuspend ) =>
                ENABLED ( /\ MatchTypeChoice(v, "special")
                          /\ regs'[RegById(v.reg_id)].status
                               = "payment_pending" ))

\* C12, its case: the lobby is full and a pending registration still has
\* its prompt, its expiry timer and no payment timer; a choice made now is
\* refused and leaves this very state.
CapacityRefusalWitness ==
    \E v \in views :
        /\ v.kind = "MatchTypeView"
        /\ RegById(v.reg_id) # 0
        /\ regs[RegById(v.reg_id)].status = "pending"
        /\ regs[RegById(v.reg_id)].match_type = NoMatchType
        /\ ReservedIn(v.lobby_key) >= C_LOBBY
        /\ \E t \in expireTasks : t.reg_id = v.reg_id
        /\ ~ \E t \in paymentTasks : t.reg_id = v.reg_id

\* C13: a reject reaction on the proof of a payment_pending registration
\* takes the registration out of both indices, leaves no payment timer
\* outstanding or recorded for it, and leaves the blacklist as it was.
RejectFrame ==
    [][\A h \in handlers :
          ( /\ ReactionResume(h, NoFailure)
            /\ h.arg = "reject"
            /\ RegById(h.reg_id) # 0
            /\ regs[RegById(h.reg_id)].status = "payment_pending" ) =>
              /\ ~ Indexed(REG_BY_ID', REG_BY_MESSAGE', RegById(h.reg_id))
              /\ BLACKLIST' = BLACKLIST
              /\ ~ DictHas(PENDING_PAYMENT_TASKS', h.reg_id)
              /\ ~ \E t \in paymentTasks' : t.reg_id = h.reg_id]_vars

\* C14: a registration removed by the payment timer has its leader in the
\* blacklist with reason "Payment Timeout", or the timer's coroutine is
\* still on its way to the blacklist entry.
TimeoutBlacklists ==
    \A m \in DOMAIN removed :
        TimedOut(m) =>
            \/ \E h \in handlers : h.kind = "timeout" /\ h.msg = m
            \/ /\ messages[m].squad.leader \in DOMAIN BLACKLIST
               /\ BLACKLIST[messages[m].squad.leader].reason
                    = "Payment Timeout"

\* C15: a registration whose status is no longer pending never has status
\* pending again, and a registration enters the store with status pending.
NoRePending ==
    [][/\ \A o \in DOMAIN regs \cap DOMAIN regs' :
             regs[o].status # "pending" => regs'[o].status # "pending"
       /\ \A o \in DOMAIN regs' \ DOMAIN regs :
             regs'[o].status = "pending"]_vars

\* C15, its case: a registration that had left pending was selected for
\* again (two payment timers were armed for it) and is payment_pending.
NoRePendingWitness ==
    \E o \in DOMAIN regs :
        /\ regs[o].status = "payment_pending"
        /\ Cardinality({t \in paymentTasks : t.reg_id = regs[o].reg_id}) = 2

\* C16: every registration in the store has exactly 4 player ids, and no
\* step changes the player ids, the leader id, the lobby or the message id
\* of a registration.
IdentityFrozen ==
    /\ [](\A o \in DOMAIN regs : Len(regs[o].player_ids) = 4)
    /\ [][\A o \in DOMAIN regs \cap DOMAIN regs' :
             /\ regs'[o].player_ids = regs[o].player_ids
             /\ regs'[o].leader_id = regs[o].leader_id
             /\ regs'[o].lobby_key = regs[o].lobby_key
             /\ regs'[o].message_id = regs[o].message_id]_vars

\* C16, its case: a registration has gone through selection and
\* confirmation and still carries the four mentions of its message.
IdentityFrozenWitness ==
    \E o \in DOMAIN regs :
        /\ regs[o].status = "confirmed"
        /\ regs[o].match_type # NoMatchType
        /\ VerifiedCount(o) = 1
        /\ regs[o].player_ids = messages[o].squad.mentions
        /\ regs[o].leader_id = messages[o].squad.leader

\* C17: no registration id has more than one expiry timer or more than one
\* payment timer outstanding.
OneTimerPerPhase ==
    \A id \in 1..REG_COUNTER :
        /\ Cardinality({t \in expireTasks : t.reg_id = id}) <= 1
        /\ Cardinality({t \in paymentTasks : t.reg_id = id}) <= 1

\* C18: when the payment instructions of a registration have been
\* delivered, no expiry timer is outstanding or recorded for it and a
\* payment timer of PAYMENT_TIMEOUT_MINUTES has been armed.
ExpiryDisarmedOnSelection ==
    [][\A h \in handlers :
          ( /\ PaySend(h, "sent")
            /\ RegById(h.reg_id) # 0
            /\ regs[RegById(h.reg_id)].status = "payment_pending" ) =>
              /\ ~ \E t \in expireTasks' : t.reg_id = h.reg_id
              /\ ~ DictHas(PENDING_EXPIRE_TASKS', h.reg_id)
              /\ \E t \in paymentTasks' \ paymentTasks :
                    /\ t.reg_id = h.reg_id
                    /\ t.due = PAYMENT_TIMEOUT_MINUTES * 60]_vars

\* C19: a fee chosen in the fee view while the lobby has C_LOBBY reserved
\* registrations leaves a pending registration pending.
FeeChoiceGuarded ==
    [][\A v \in views : \A fee \in AllFees :
          ( /\ FeeButtonCallback(v, fee)
            /\ v.kind = "FeeView"
            /\ RegById(v.reg_id) # 0
            /\ regs[RegById(v.reg_id)].status = "pending"
            /\ ReservedIn(v.lobby_key) >= C_LOBBY ) =>
              regs'[RegById(v.reg_id)].status = "pending"]_vars

\* C20: when the leader is not found or the private prompt cannot be sent,
\* the submission handler ends with the registration in neither index and
\* with its expiry timer cancelled; a registration rolled back this way is
\* never in the store again, so it blocks no submission and holds no slot.
PromptRollback ==
    /\ [][\A h \in handlers : \A r \in {"no_member", "dm_failed"} :
             OnMessageDm(h, r) =>
                 /\ h \notin handlers'
                 /\ ~ Indexed(REG_BY_ID', REG_BY_MESSAGE', h.msg)
                 /\ ~ \E t \in expireTasks' : t.reg_id = h.reg_id]_vars
    /\ [](\A m \in DOMAIN removed :
             removed[m] = "rollback" =>
                 /\ ~ Indexed(REG_BY_ID, REG_BY_MESSAGE, m)
                 /\ m \notin DOMAIN regs)

\* C20, its case: an accepted submission was rolled back when its prompt
\* could not be delivered; it is in neither index and no expiry timer is
\* left.
PromptRollbackWitness ==
    \E m \in DOMAIN removed :
        /\ removed[m] = "rollback"
        /\ messages[m].verdict = "accepted"
        /\ ~ Indexed(REG_BY_ID, REG_BY_MESSAGE, m)
        /\ expireTasks = {}

\* the three entry checks of on_message, read off the submission and the
\* state it arrives in
RejectedAtEntry(s) ==
    \/ s.leader \in DOMAIN BLACKLIST
    \/ Len(s.mentions) # 4
    \/ \E k \in DOMAIN REG_BY_ID :
          Collides(RegValues[k], s.lobby, AutoTeamName(s.display), s.mentions)

\* C21: the handling of a submission that fails an entry check (sender
\* blacklisted, mention count other than 4, duplicate) changes nothing but
\* the channel: the store, the id counter, the timer maps and their tasks,
\* the blacklist and its file, the prompts and the handlers in flight stay
\* as they were.
EntryFrame ==
    [][\A i \in DOMAIN Squads :
          (OnMessage(Squads[i], MaxEntryMsgs) /\ RejectedAtEntry(Squads[i]))
          => UNCHANGED <<REG_COUNTER, regs, REG_BY_ID, REG_BY_MESSAGE,
                         PENDING_EXPIRE_TASKS, PENDING_PAYMENT_TASKS,
                         expireTasks, paymentTasks, BLACKLIST,
                         PAYMENT_VERIFICATION_REQUESTS, disk, views,
                         handlers, created>>]_vars

\* a second submission was turned away as a duplicate of a registration
\* that is waiting for payment
EntryFrameWitness ==
    /\ Len(messages) = 2
    /\ messages[2].verdict = "duplicate"
    /\ REG_COUNTER = 1
    /\ \E o \in DOMAIN regs : regs[o].status = "payment_pending"

NothingDone ==
    UNCHANGED <<REG_COUNTER, regs, REG_BY_ID, REG_BY_MESSAGE,
                PENDING_EXPIRE_TASKS, PENDING_PAYMENT_TASKS, BLACKLIST,
                PAYMENT_VERIFICATION_REQUESTS, disk, views, messages, proofs,
                created, verified, removed>>

\* the id is gone from the by-id index
Gone(reg_id) == \A i \in DOMAIN REG_BY_ID : REG_BY_ID[i].key # reg_id

\* the object the id stands for has left both indices in this step, with
\* `cause` recorded
RemovedNow(reg_id, cause) ==
    \E i \in DOMAIN REG_BY_ID :
        /\ REG_BY_ID[i].key = reg_id
        /\ ~ Indexed(REG_BY_ID', REG_BY_MESSAGE', REG_BY_ID[i].val)
        /\ REG_BY_ID[i].val \in DOMAIN removed'
        /\ removed'[REG_BY_ID[i].val] = cause

\* C23: a registration is removed at most once.  A removal trigger (expiry
\* timer, payment timer, reject reaction, cancel_slot) that finds the
\* registration takes it out of both indices, so that no later trigger can
\* find it; a trigger that arrives for an id that is gone changes nothing
\* and starts nothing; and the cause recorded for a removed registration
\* never changes, nor does the registration come back.
RemovalOnce ==
    /\ [](\A o \in DOMAIN removed : ~ Indexed(REG_BY_ID, REG_BY_MESSAGE, o))
    /\ [][/\ \A o \in DOMAIN removed :
               o \in DOMAIN removed' /\ removed'[o] = removed[o]
          /\ \A t \in expireTasks :
               ExpirePending(t)
               => IF Gone(t.reg_id)
                  THEN NothingDone /\ handlers' = handlers
                       /\ paymentTasks' = paymentTasks
                  ELSE regs[RegById(t.reg_id)].status = "pending"
                       => RemovedNow(t.reg_id, "expired")
          /\ \A t \in paymentTasks : \A g \in BOOLEAN :
               PaymentTimeout(t, g)
               => IF Gone(t.reg_id)
                  THEN NothingDone /\ handlers' = handlers
                       /\ expireTasks' = expireTasks
                  ELSE regs[RegById(t.reg_id)].status = "payment_pending"
                       => RemovedNow(t.reg_id, "payment_timeout")
          /\ \A h \in handlers :
               (ReactionResume(h, NoFailure) /\ h.arg = "reject")
               => IF Gone(h.reg_id)
                  THEN NothingDone /\ handlers' = handlers \ {h}
                       /\ expireTasks' = expireTasks
                       /\ paymentTasks' = paymentTasks
                  ELSE RemovedNow(h.reg_id, "rejected")
          /\ \A n \in StaffTeamNames :
               CancelSlot(n)
               => IF \A i \in DOMAIN REG_BY_ID :
                        ~ EqualIgnoringCase(RegValues[i].team_name, n)
                  THEN UNCHANGED vars
                  ELSE \E i \in DOMAIN REG_BY_ID :
                          /\ EqualIgnoringCase(RegValues[i].team_name, n)
                          /\ RemovedNow(REG_BY_ID[i].key, "cancelled")]_vars

\* a reject reaction is about to resume for a registration that the payment
\* timer has already removed
RemovalOnceWitness ==
    \E h \in handlers :
        /\ h.kind = "reaction" /\ h.pc = "fetch" /\ h.arg = "reject"
        /\ Gone(h.reg_id)
        /\ \E o \in DOMAIN removed : removed[o] = "payment_timeout"

\* the step is a run of confirm_registration on the object o in which the
\* platform fails the call named by f; markpaid takes the first registration
\* of the team in the order of the by-id index
ConfirmsWith(o, f) ==
    \/ /\ regs[o].status # "confirmed"
       /\ EqualIgnoringCase(regs[o].team_name, StaffTeamName)
       /\ \E i \in DOMAIN REG_BY_ID :
             /\ REG_BY_ID[i].val = o
             /\ \A j \in 1..(i - 1) :
                   ~ EqualIgnoringCase(RegValues[j].team_name, StaffTeamName)
       /\ MarkpaidCmd(StaffTeamName, f)
    \/ \E h \in handlers :
          /\ h.kind = "dashboard" \/ (h.kind = "reaction" /\ h.arg = "approve")
          /\ \E i \in DOMAIN REG_BY_ID :
                REG_BY_ID[i].key = h.reg_id /\ REG_BY_ID[i].val = o
          /\ MarkpaidByRegId(h, f) \/ ReactionResume(h, f)

\* after the step o is in both indices with status confirmed
ConfirmedAfter(o) ==
    /\ o \in DOMAIN regs'
    /\ regs'[o].status = "confirmed"
    /\ o \in REG_BY_MESSAGE'
    /\ \E i \in DOMAIN REG_BY_ID' : REG_BY_ID'[i].val = o

\* C24: a run of confirm_registration in which a call fails, whichever
\* call and with whichever error, leaves the registration in both indices
\* with status confirmed (a step that does not is no such run); and no
\* step takes a registration that stays in the store from confirmed to
\* another status.
StatusSurvives ==
    [][/\ \A o \in DOMAIN regs :
            \/ ConfirmedAfter(o)
            \/ \A f \in CallFailures \ {NoFailure} : ~ ConfirmsWith(o, f)
       /\ \A o \in DOMAIN regs :
            (regs[o].status = "confirmed" /\ o \in DOMAIN regs')
            => regs'[o].status = "confirmed"]_vars

\* a registration with a match type is confirmed although its sequence
\* never reached the audit record: a call failed on the way
StatusSurvivesWitness ==
    \E o \in DOMAIN regs :
        /\ regs[o].status = "confirmed"
        /\ regs[o].match_type # NoMatchType
        /\ VerifiedCount(o) = 0
        /\ o \in REG_BY_MESSAGE

\* permission denied or not-found on one of the four grant calls
GrantFailures ==
    {[call |-> c, error |-> e] :
        c \in {"create_role", "add_roles", "edit", "send"},
        e \in {"forbidden", "not_found"}}

\* C25: in the first confirmation of a registration that has a match
\* type, a grant call that fails with permission denied or not-found does
\* not stop the sequence: the run reaches the 'Payment Verified' record.
FailuresSwallowed ==
    [][\A o \in DOMAIN regs : \A f \in GrantFailures :
          ( /\ VerifiedCount(o) = 0
            /\ regs[o].match_type # NoMatchType
            /\ ConfirmsWith(o, f) )
          => o \in DOMAIN verified' /\ verified'[o] = 1]_vars

\* C26: when the write of save_state fails (the file is left as it was or
\* truncated), the mutation that preceded it stands: the new registration
\* gets the incremented counter and the counter keeps it, the leader the
\* payment timeout or the add command blacklists is in the blacklist, and
\* the entry the remove command deletes is gone.
MutationSurvivesSave ==
    [][\A saved \in {"unchanged", "truncated"} :
          /\ \A h \in handlers :
                OnMessageCreate(h, saved)
                => /\ REG_COUNTER' = REG_COUNTER + 1
                   /\ h.msg \in DOMAIN regs'
                   /\ regs'[h.msg].reg_id = REG_COUNTER + 1
          /\ \A h \in handlers :
                TimeoutBlacklist(h, saved)
                => messages[h.msg].squad.leader \in DOMAIN BLACKLIST'
          /\ \A l \in BlacklistIds :
                BlacklistAdd(l, saved) => l \in DOMAIN BLACKLIST'
          /\ \A l \in BlacklistIds :
                BlacklistRemove(l, saved) => l \notin DOMAIN BLACKLIST']_vars

\* the counter and a blacklist entry made by the payment timeout are in
\* memory and not in the file
MutationSurvivesSaveWitness ==
    /\ REG_COUNTER = 2
    /\ disk.reg_counter < REG_COUNTER
    /\ \E l \in DOMAIN BLACKLIST :
          /\ BLACKLIST[l].reason = "Payment Timeout"
          /\ l \notin DOMAIN disk.blacklist

\* the status of the registration filed under the id, "gone" if there is none
StatusById(reg_id) ==
    IF \E i \in DOMAIN REG_BY_ID : REG_BY_ID[i].key = reg_id
    THEN RegValues[CHOOSE i \in DOMAIN REG_BY_ID :
                      REG_BY_ID[i].key = reg_id].status
    ELSE "gone"

\* C27: an expiry timer that fires for an id whose registration is gone or
\* not pending, and a payment timer that fires for an id whose
\* registration is gone or not payment_pending, change nothing and start
\* nothing: no removal, no blacklist entry, no coroutine on its way to
\* one.  No firing of either timer takes a confirmed registration out of
\* the store or changes it.
TimersMatchPhase ==
    [][/\ \A t \in expireTasks :
            (ExpirePending(t) /\ StatusById(t.reg_id) # "pending")
            => NothingDone /\ handlers' = handlers
               /\ paymentTasks' = paymentTasks
       /\ \A t \in paymentTasks : \A g \in BOOLEAN :
            (PaymentTimeout(t, g) /\ StatusById(t.reg_id) # "payment_pending")
            => NothingDone /\ handlers' = handlers
               /\ expireTasks' = expireTasks
       /\ \A o \in DOMAIN regs :
            ( /\ regs[o].status = "confirmed"
              /\ \/ \E t \in expireTasks : ExpirePending(t)
                 \/ \E t \in paymentTasks : \E g \in BOOLEAN :
                       PaymentTimeout(t, g) )
            => /\ o \in DOMAIN regs' /\ regs'[o] = regs[o]
               /\ Indexed(REG_BY_ID', REG_BY_MESSAGE', o)]_vars

\* the expiry timer of a registration that is payment_pending or confirmed
\* has fired (it is neither outstanding nor was it ever cancelled), and the
\* registration is in the store
TimersMatchPhaseWitness ==
    \E o \in DOMAIN regs :
        /\ regs[o].status \in {"payment_pending", "confirmed"}
        /\ DictHas(PENDING_EXPIRE_TASKS, regs[o].reg_id)
        /\ \A t \in expireTasks : t.reg_id # regs[o].reg_id
        /\ Indexed(REG_BY_ID, REG_BY_MESSAGE, o)

\* after the step the registration filed under the id is confirmed
ConfirmedById(reg_id) ==
    \E i \in DOMAIN REG_BY_ID :
        /\ REG_BY_ID[i].key = reg_id
        /\ REG_BY_ID[i].val \in DOMAIN regs'
        /\ regs'[REG_BY_ID[i].val].status = "confirmed"

\* C28: each approval entry point looks the registration up and commits
\* status confirmed in one step.  If the lookup finds the registration,
\* the state after the step has it confirmed; if the registration has gone
\* while the handler was suspended before the lookup, the step changes
\* nothing; and a status becomes confirmed in no other step.
LookupCommitAtomic ==
    [][/\ \A n \in StaffTeamNames :
            MarkpaidCmd(n, NoFailure)
            => IF \E i \in DOMAIN REG_BY_ID :
                     EqualIgnoringCase(RegValues[i].team_name, n)
               THEN \E i \in DOMAIN REG_BY_ID :
                       /\ EqualIgnoringCase(RegValues[i].team_name, n)
                       /\ ConfirmedById(REG_BY_ID[i].key)
               ELSE UNCHANGED vars
       /\ \A h \in handlers :
            ( \/ MarkpaidByRegId(h, NoFailure)
              \/ ReactionResume(h, NoFailure) /\ h.arg = "approve" )
            => IF Gone(h.reg_id)
               THEN NothingDone /\ handlers' = handlers \ {h}
                    /\ expireTasks' = expireTasks
                    /\ paymentTasks' = paymentTasks
               ELSE ConfirmedById(h.reg_id)
       /\ \A o \in DOMAIN regs :
            ( /\ regs[o].status # "confirmed"
              /\ o \in DOMAIN regs'
              /\ regs'[o].status = "confirmed" )
            => \/ \E n \in StaffTeamNames : MarkpaidCmd(n, NoFailure)
               \/ \E h \in handlers :
                     \/ MarkpaidByRegId(h, NoFailure)
                     \/ ReactionResume(h, NoFailure) /\ h.arg = "approve"]_vars

\* the dashboard's markpaid coroutine is about to run for a registration
\* that cancel_slot removed after the coroutine was scheduled
LookupCommitAtomicWitness ==
    \E h \in handlers :
        /\ h.kind = "dashboard" /\ h.pc = "run"
        /\ Gone(h.reg_id)
        /\ \E o \in DOMAIN removed : removed[o] = "cancelled"

\* C29: a match type or a fee chosen for a registration that is already
\* payment_pending changes nothing of the registration and starts no
\* payment prompt, so that no further payment timer is armed.
ReselectionAbsorbed ==
    [][\A v \in views :
          ( /\ StatusById(v.reg_id) = "payment_pending"
            /\ \/ \E mt \in MatchTypeKeys : MatchTypeChoice(v, mt)
               \/ \E fee \in AllFees : FeeButtonCallback(v, fee) )
          => /\ regs' = regs
             /\ handlers' = handlers
             /\ paymentTasks' = paymentTasks]_vars

\* C30: when the leader of a pending registration chooses a match type
\* with several fees (mini, mega) and the lobby has a free slot, the match
\* type is recorded and nothing else of the registration changes: the
\* status stays pending, so the registration is not among the reserved
\* ones, no fee is set, and no timer is armed, cancelled or forgotten.
MultiFeeChoiceFrame ==
    [][\A v \in views : \A mt \in {"mini", "mega"} :
          ( /\ MatchTypeChoice(v, mt)
            /\ StatusById(v.reg_id) = "pending"
            /\ ReservedIn(v.lobby_key) < 36 )
          => LET o == RegById(v.reg_id)
             IN  /\ regs' = [regs EXCEPT ![o].match_type = mt]
                 /\ regs'[o].status \notin {"payment_pending", "confirmed"}
                 /\ UNCHANGED <<REG_BY_ID, REG_BY_MESSAGE, expireTasks,
                                paymentTasks, PENDING_EXPIRE_TASKS,
                                PENDING_PAYMENT_TASKS>>]_vars

\* a pending registration with match type mini or mega, no fee, its expiry
\* timer outstanding and no payment timer
MultiFeeChoiceFrameWitness ==
    \E o \in DOMAIN regs :
        /\ regs[o].status = "pending"
        /\ regs[o].match_type \in {"mini", "mega"}
        /\ regs[o].entry_fee = NoFee
        /\ \E t \in expireTasks : t.reg_id = regs[o].reg_id
        /\ paymentTasks = {}
        /\ ReservedIn(regs[o].lobby_key) = 0

\* no timer of the id is outstanding or recorded after the step
Disarmed(reg_id) ==
    /\ \A t \in expireTasks' : t.reg_id # reg_id
    /\ \A t \in paymentTasks' : t.reg_id # reg_id
    /\ \A i \in DOMAIN PENDING_EXPIRE_TASKS' :
          PENDING_EXPIRE_TASKS'[i].key # reg_id
    /\ \A i \in DOMAIN PENDING_PAYMENT_TASKS' :
          PENDING_PAYMENT_TASKS'[i].key # reg_id

\* C31: after cancel_slot has removed a registration, neither an expiry
\* timer nor a payment timer of its id is outstanding, and neither timer
\* map has an entry for the id.
CancelDisarms ==
    [][\A n \in StaffTeamNames : \A i \in DOMAIN REG_BY_ID :
          ( /\ CancelSlot(n)
            /\ EqualIgnoringCase(RegValues[i].team_name, n)
            /\ ~ Indexed(REG_BY_ID', REG_BY_MESSAGE', REG_BY_ID[i].val) )
          => Disarmed(REG_BY_ID[i].key)]_vars

\* C32: a submission that passes the three entry checks is taken on
\* whatever the number of reserved registrations of its lobby, 36
\* included; the registration it creates is pending and in the store; and
\* reserved_slots_count counts the payment_pending and confirmed
\* registrations of a lobby and no pending one.
CapacityNotAtEntry ==
    /\ [](\A lobby \in LobbyKeys :
            reserved_slots_count(lobby) = ReservedIn(lobby))
    /\ [][/\ \A i \in DOMAIN Squads :
               (OnMessage(Squads[i], MaxFullMsgs)
                   /\ ~ RejectedAtEntry(Squads[i]))
               => \E h \in handlers' \ handlers :
                     /\ h.kind = "on_message" /\ h.pc = "create"
                     /\ messages'[h.msg].squad = Squads[i]
          /\ \A h \in handlers : \A saved \in SaveOutcomes :
               OnMessageCreate(h, saved)
               => /\ h.msg \in DOMAIN regs'
                  /\ regs'[h.msg].status = "pending"
                  /\ Indexed(REG_BY_ID', REG_BY_MESSAGE', h.msg)
                  /\ h.msg \in REG_BY_MESSAGE'
                  /\ \A o \in DOMAIN regs :
                        o \in DOMAIN regs' /\ regs'[o] = regs[o]]_vars

\* lobby 12pm has 36 reserved registrations, and the registration created
\* last, after all of them, is pending in that lobby
CapacityNotAtEntryWitness ==
    /\ ReservedIn("12pm") = 36
    /\ \E o \in DOMAIN regs :
          /\ regs[o].status = "pending"
          /\ regs[o].lobby_key = "12pm"
          /\ regs[o].reg_id = REG_COUNTER
          /\ regs[o].reg_id = 37

\* C33: when the payment instructions cannot be delivered, the
\* registration leaves both indices, and after the step no expiry timer
\* and no payment timer of its id is outstanding or recorded.
DeliveryRollback ==
    [][\A h \in handlers :
          PaySend(h, "dm_failed")
          => /\ ~ Indexed(REG_BY_ID', REG_BY_MESSAGE', h.msg)
             /\ h.msg \notin DOMAIN regs'
             /\ Disarmed(h.reg_id)]_vars

\* C34: on a disk whose writes succeed, what load_state would read is at
\* every moment the counter and the blacklist of the memory: every step
\* that increments the counter or changes the blacklist (creation, the
\* blacklisting by the payment timeout, blacklist add and remove) writes
\* the file in the same step.  The keys of the blacklist are strings and
\* its values strings, integers and None before json.dump already, so that
\* the file gives back what was written.
SnapshotInSync ==
    /\ load_state.reg_counter = REG_COUNTER
    /\ load_state.blacklist = BLACKLIST

\* two registrations have been created and the payment timeout has
\* blacklisted leader 1; the file has both
SnapshotInSyncWitness ==
    /\ REG_COUNTER = 2
    /\ 1 \in DOMAIN BLACKLIST
    /\ BLACKLIST[1].reason = "Payment Timeout"
    /\ disk.readable
    /\ disk.reg_counter = 2
    /\ 1 \in DOMAIN disk.blacklist

\* the registration of message m is in the store with status
\* payment_pending
InPaymentPending(m) ==
    m \in DOMAIN regs /\ regs[m].status = "payment_pending"

\* C35: a registration that is payment_pending does not stay so for ever:
\* with timers that fire when due and handlers that are resumed, it is
\* confirmed or removed, whatever the calls between the commit of the
\* status and the arming of the payment timer answer.
PendingLeaves ==
    \A m \in 1..MaxLiveMsgs : InPaymentPending(m) ~> ~ InPaymentPending(m)

\* C36: no two registrations of one lobby that both hold a slot
\* (payment_pending or confirmed) have a player in common or the same team
\* name up to case, also when each was submitted while the other was still
\* pending.
ReservedDisjoint ==
    \A o \in DOMAIN regs : \A p \in DOMAIN regs :
        ( /\ o # p
          /\ regs[o].lobby_key = regs[p].lobby_key
          /\ regs[o].status \in {"payment_pending", "confirmed"}
          /\ regs[p].status \in {"payment_pending", "confirmed"} )
        => /\ ~ EqualIgnoringCase(regs[o].team_name, regs[p].team_name)
           /\ ~ SharesPlayer(regs[o], regs[p].player_ids)

\* C37: a registration that is payment_pending or confirmed has a match
\* type and an entry fee, and the fee is one of the fee options of that
\* match type.
FeeOfMatchType ==
    \A o \in DOMAIN regs :
        regs[o].status \in {"payment_pending", "confirmed"}
        => /\ regs[o].match_type \in MatchTypeKeys
           /\ regs[o].entry_fee \in AllFees
           /\ \E k \in DOMAIN MATCH_TYPES[regs[o].match_type] :
                 MATCH_TYPES[regs[o].match_type][k] = regs[o].entry_fee

\* the registrations reachable by id
ReachableById == {REG_BY_ID[i].val : i \in DOMAIN REG_BY_ID}

\* C38: between the synchronous sections of the handlers the two indices of
\* the store hold the same registrations, each under its own id and its own
\* message id; so every creation and every removal changes both together.
IndicesAgree ==
    /\ ReachableById = REG_BY_MESSAGE
    /\ \A i \in DOMAIN REG_BY_ID :
          REG_BY_ID[i].key = regs[REG_BY_ID[i].val].reg_id
    /\ \A o \in REG_BY_MESSAGE : regs[o].message_id = o

\* the registration of the id has left the store or is confirmed, and no
\* timer of the id is still sleeping
Settled(reg_id) ==
    /\ \A o \in DOMAIN regs :
          regs[o].reg_id = reg_id => regs[o].status = "confirmed"
    /\ \A t \in expireTasks : t.reg_id # reg_id
    /\ \A t \in paymentTasks : t.reg_id # reg_id

\* C39: once a registration has been removed or confirmed and its timers
\* have fired or been cancelled, neither timer map has an entry for its id.
NoStaleTimerEntries ==
    \A k \in DOMAIN created :
        Settled(created[k])
        => /\ \A i \in DOMAIN PENDING_EXPIRE_TASKS :
                 PENDING_EXPIRE_TASKS[i].key # created[k]
           /\ \A i \in DOMAIN PENDING_PAYMENT_TASKS :
                 PENDING_PAYMENT_TASKS[i].key # created[k]

====
